---------------------------- MODULE Spec2Model ----------------------------
(***************************************************************************)
(* A model of qtm_spec, the analysis package of the Quantinuum hardware    *)
(* specifications repository: the parameter conversions of the RB and      *)
(* crosstalk fits, the decay models, the pooled RB analysis and            *)
(* extract_parameters of combined_analysis.py.                             *)
(*                                                                         *)
(* Numbers.  Python floats are modelled by exact rationals <<n, d>> in     *)
(* lowest terms with d > 0.  A power with a rational exponent is the exact *)
(* root, defined only where the root is rational, so the inputs are drawn  *)
(* from grids on which it is; np.sqrt of a rational is kept as the surd    *)
(* [rad |-> q].  The least-squares optimizer (scipy curve_fit) is the      *)
(* environment: it hands back any point of its bounds box, or fails.       *)
(***************************************************************************)
EXTENDS Integers, Sequences, FiniteSets, TLC

VARIABLES cv, mv, bv, rv, test_list, files, at, pc, df, dim, local, exc, calls, ev

xvars == <<test_list, files, at, pc, df, dim, local, exc, calls, ev>>
vars == <<cv, mv, bv, rv, xvars>>

-----------------------------------------------------------------------------
(* Exact rational arithmetic.                                              *)

RECURSIVE Gcd(_, _)
Gcd(a, b) == IF b = 0 THEN a ELSE Gcd(b, a % b)

Abs(a) == IF a < 0 THEN -a ELSE a

R(n, d) ==
    LET g == Gcd(Abs(n), Abs(d))
        s == IF d < 0 THEN -1 ELSE 1
    IN  <<(s * n) \div g, (s * d) \div g>>

Zero == <<0, 1>>
One == <<1, 1>>
Two == <<2, 1>>
RInt(k) == <<k, 1>>

(* sums over the least common denominator, to keep the integers small      *)
Lcd(x, y) == (x[2] \div Gcd(x[2], y[2])) * y[2]
RAdd(x, y) ==
    LET l == Lcd(x, y) IN R(x[1] * (l \div x[2]) + y[1] * (l \div y[2]), l)
RSub(x, y) ==
    LET l == Lcd(x, y) IN R(x[1] * (l \div x[2]) - y[1] * (l \div y[2]), l)
RMul(x, y) == R(x[1] * y[1], x[2] * y[2])
RDiv(x, y) == R(x[1] * y[2], x[2] * y[1])
RLe(x, y) == RSub(x, y)[1] <= 0
RLt(x, y) == RSub(x, y)[1] < 0

RECURSIVE IPow(_, _)
IPow(a, k) == IF k = 0 THEN 1 ELSE a * IPow(a, k - 1)

RPowInt(x, k) == <<IPow(x[1], k), IPow(x[2], k)>>

(* the exact q-th root of a non-negative integer that is a perfect power   *)
IRoot(n, q) == IF q = 1 THEN n ELSE CHOOSE a \in 0..n : IPow(a, q) = n

(* x ** e for a rational x >= 0 and a rational exponent e = p/q >= 0       *)
RPow(x, e) == RPowInt(<<IRoot(x[1], e[2]), IRoot(x[2], e[2])>>, e[1])

InUnit(x) == RLe(Zero, x) /\ RLe(x, One)

-----------------------------------------------------------------------------
(* Results of a call: a value, or the exception the call ends with.        *)

Ok(v) == [exc |-> "none", val |-> v]
Raise(e) == [exc |-> e, val |-> <<>>]
Pending == [exc |-> "pending", val |-> <<>>]

(* the result of an analysis, with the fit and bootstrap calls it made     *)
Done(res, made) == [exc |-> res.exc, val |-> res.val, calls |-> made]

-----------------------------------------------------------------------------
(* rb_analysis_functions.py: the conversions of the RB fit.                *)

ntq_always_one(nqubits) == One

ntq(nqubits) == IF nqubits = 2 THEN <<3, 2>> ELSE One

Pow2(nqubits) == RInt(IPow(2, nqubits))

rb_convert_params(fit_params, nqubits, data_type) ==
    IF data_type = "survival"
    THEN Ok(<< RAdd(fit_params[1], RDiv(One, Pow2(nqubits))),
               RDiv(RAdd(RMul(RSub(Pow2(nqubits), One),
                              RPow(fit_params[2], RDiv(One, ntq(nqubits)))),
                         One),
                    Pow2(nqubits)) >>)
    ELSE IF data_type = "leakage_postselect"
    THEN Ok(<< fit_params[1],
               RSub(One, RDiv(RSub(One, fit_params[2]), ntq(nqubits))) >>)
    ELSE Raise("UnboundLocalError")

rb_convert_metrics(metrics_params, nqubits, data_type) ==
    IF data_type = "survival"
    THEN Ok(<< RSub(metrics_params[1], RDiv(One, Pow2(nqubits))),
               RPow(RDiv(RSub(RMul(Pow2(nqubits), metrics_params[2]), One),
                         RSub(Pow2(nqubits), One)),
                    ntq(nqubits)) >>)
    ELSE IF data_type = "leakage_postselect"
    THEN Ok(<< metrics_params[1],
               RSub(One, RDiv(RMul(ntq(nqubits), RSub(One, metrics_params[2])),
                              Two)) >>)
    ELSE Raise("UnboundLocalError")

(* scipy curve_fit with bounds: the optimizer's outcome opt is either a    *)
(* point popt of the bounds box or a failure to converge.                  *)
FitLower == <<Zero, Zero>>
FitUpper == <<One, One>>

InBounds(popt) ==
    \A i \in 1..2 : RLe(FitLower[i], popt[i]) /\ RLe(popt[i], FitUpper[i])

Converged(popt) == [conv |-> TRUE, popt |-> popt]
NotConverged == [conv |-> FALSE, popt |-> <<>>]

asympt(nqubits, data_type) ==
    IF data_type = "survival" THEN RDiv(One, Pow2(nqubits)) ELSE Zero

initial_guess(nqubits, data_type) ==
    IF data_type = "survival"
    THEN <<RSub(One, RDiv(One, Pow2(nqubits))), <<99, 100>> >>
    ELSE <<One, <<99, 100>> >>

expoential_fit(seq_lengths, survival_means, nqubits, data_type, opt) ==
    IF data_type \notin {"survival", "leakage_postselect"}
    THEN Raise("TypeError")
    ELSE IF ~opt.conv
    THEN Raise("RuntimeError")
    ELSE rb_convert_params(opt.popt, nqubits, data_type)

-----------------------------------------------------------------------------
(* decay_analysis_functions.py: the conversions of the crosstalk fit.      *)

decay_convert_params(fit_param, decay_type) ==
    IF decay_type = "Measurement_crosstalk"
    THEN Ok(<< fit_param[1], RDiv(RMul(RInt(5), fit_param[2]), RInt(6)) >>)
    ELSE IF decay_type = "Reset_crosstalk"
    THEN Ok(<< fit_param[1], RDiv(RMul(RInt(5), fit_param[2]), RInt(3)) >>)
    ELSE Raise("UnboundLocalError")

decay_convert_metrics(metrics_param, decay_type) ==
    IF decay_type = "Measurement_crosstalk"
    THEN Ok(<< metrics_param[1], RDiv(RMul(RInt(6), metrics_param[2]), RInt(5)) >>)
    ELSE IF decay_type = "Reset_crosstalk"
    THEN Ok(<< metrics_param[1], RDiv(RMul(RInt(3), metrics_param[2]), RInt(5)) >>)
    ELSE Raise("UnboundLocalError")

decay_fit(xvals, yvals, decay_type, opt) ==
    IF decay_type \notin {"Measurement_crosstalk", "Reset_crosstalk"}
    THEN Raise("UnboundLocalError")
    ELSE IF ~opt.conv
    THEN Raise("RuntimeError")
    ELSE decay_convert_params(opt.popt, decay_type)

-----------------------------------------------------------------------------
(* The decay models.                                                       *)

growth_with_asymptote(seq_len, A, r, asymptote) ==
    RAdd(RMul(A, RSub(One, RPowInt(r, seq_len))), asymptote)

exponential_with_asymptote(seq_len, A, r, asymptote) ==
    RAdd(RMul(A, RPowInt(r, seq_len)), asymptote)

(* the fit_function of expoential_fit: the model with the variant's        *)
(* asymptote                                                               *)
fit_function(x, A, r, nqubits, data_type) ==
    exponential_with_asymptote(x, A, r, asympt(nqubits, data_type))

(* np.exp at an integer multiple k of ln 2.  The crosstalk rate gamma is   *)
(* given to the two crosstalk models in units of ln 2, so that every       *)
(* exponential they take is rational.                                      *)
np_exp(k) == IF k >= 0 THEN <<IPow(2, k), 1>> ELSE <<1, IPow(2, -k)>>

measurement_crosstalk(m, spam, gamma) ==
    RMul(<<1, 3>>,
         RAdd(RAdd(One, spam),
              RMul(np_exp(-3 * gamma * m),
                   RSub(Two, RMul(RInt(4), spam)))))

reset_crosstalk(m, spam, gamma) ==
    RAdd(spam,
         RMul(RMul(RMul(<<1, 3>>, np_exp(-5 * gamma * m)),
                   RAdd(Two, np_exp(3 * gamma * m))),
              RSub(One, RMul(Two, spam))))

-----------------------------------------------------------------------------
(* Python dicts, as json.load builds them: a sequence of <<key, value>>    *)
(* pairs in insertion order.  The keys of the sequence lengths and of the  *)
(* repetitions, decimal strings in the files, are modelled by the integers *)
(* they spell.                                                             *)

Keys(d) == [i \in 1..Len(d) |-> d[i][1]]
Values(d) == [i \in 1..Len(d) |-> d[i][2]]
Has(d, k) == \E i \in 1..Len(d) : d[i][1] = k
Get(d, k) == d[CHOOSE i \in 1..Len(d) : d[i][1] = k][2]
Put(d, k, v) ==
    IF Has(d, k)
    THEN [i \in 1..Len(d) |-> IF d[i][1] = k THEN <<k, v>> ELSE d[i]]
    ELSE Append(d, <<k, v>>)

RECURSIVE ISum(_)
ISum(s) == IF s = <<>> THEN 0 ELSE Head(s) + ISum(Tail(s))

RECURSIVE RSum(_)
RSum(s) == IF s = <<>> THEN Zero ELSE RAdd(Head(s), RSum(Tail(s)))

np_mean(vals) == RDiv(RSum(vals), RInt(Len(vals)))

RECURSIVE Insert(_, _)
Insert(v, s) ==
    IF s = <<>> THEN <<v>>
    ELSE IF RLe(v, Head(s)) THEN <<v>> \o s
    ELSE <<Head(s)>> \o Insert(v, Tail(s))

RECURSIVE Sorted(_)
Sorted(s) == IF s = <<>> THEN <<>> ELSE Insert(Head(s), Sorted(Tail(s)))

(* np.quantile with its default linear interpolation                       *)
np_quantile(vals, q) ==
    LET v == Sorted(vals)
        n == Len(v)
        pos == RMul(q, RInt(n - 1))
        lo == pos[1] \div pos[2]
        hi == IF lo + 1 > n - 1 THEN n - 1 ELSE lo + 1
        frac == RSub(pos, RInt(lo))
    IN  RAdd(v[lo + 1], RMul(frac, RSub(v[hi + 1], v[lo + 1])))

(* erf(1/sqrt(2)) = 0.6827 is irrational: 17/25 stands for it, so that     *)
(* thresh = 1/2 + erf(1/sqrt(2))/2 is 21/25                                *)
erf_inv_sqrt2 == <<17, 25>>
thresh_swapped == RSub(<<1, 2>>, RDiv(erf_inv_sqrt2, Two))

thresh == RAdd(<<1, 2>>, RDiv(erf_inv_sqrt2, Two))

(* np.sqrt of a rational q >= 0, kept exact as the surd with radicand q    *)
np_sqrt(q) == [rad |-> q]

-----------------------------------------------------------------------------
(* rb_analysis_functions.py: bootstrap and rb_analysis_combined.           *)

(* The random draws of one resample are the environment's: draw.idx names  *)
(* how np.random.choice picks the repetition indices, draw.opt is the      *)
(* optimizer's outcome on the resampled data.                              *)
resampled_reps(how, nx, reps) ==
    [i \in 1..nx |->
        [j \in 1..reps |-> IF how = "identity" THEN j - 1 ELSE reps - 1]]

(* np.random.binomial(shots, p) for p = count/shots: the draw that returns *)
(* count again, an outcome of probability > 0 for every p                  *)
np_random_binomial(shots, p) == (p[1] * shots) \div p[2]

(* lines 207-221: the means of one resample                                *)
boot_yvals(survival, shots, xvals, reps, rr) ==
    [i \in 1..Len(xvals) |->
        np_mean([j \in 1..reps |->
                    R(np_random_binomial(shots,
                                         R(Get(Get(survival, xvals[i]), rr[i][j]),
                                           shots)),
                      shots)])]

RECURSIVE boot_loop(_, _, _, _, _, _, _, _)
RECURSIVE boot_append(_, _, _, _, _, _, _, _, _)
(* lines 228-229, and the next round of the loop                           *)
boot_append(survival, shots, nqubits, data_type, resamples, draws, k, boot_sample, metrics) ==
    IF metrics.exc # "none" THEN metrics
    ELSE boot_loop(survival, shots, nqubits, data_type, resamples, draws, k + 1,
                   [intercept |-> Append(boot_sample.intercept, metrics.val[1]),
                    rate |-> Append(boot_sample.rate, metrics.val[2])])

(* lines 202-227: one resample, rr its repetition indices                  *)
boot_resample(survival, shots, nqubits, data_type, resamples, draws, k, boot_sample, xvals, reps, rr) ==
    IF \E i \in 1..Len(xvals) : \E j \in 1..reps :
            ~Has(Get(survival, xvals[i]), rr[i][j])
    THEN Raise("KeyError")
    ELSE boot_append(survival, shots, nqubits, data_type, resamples, draws, k,
                     boot_sample,
                     expoential_fit(xvals,
                                    boot_yvals(survival, shots, xvals, reps, rr),
                                    nqubits, data_type, draws[k].opt))

boot_loop(survival, shots, nqubits, data_type, resamples, draws, k, boot_sample) ==
    IF k > resamples THEN Ok(boot_sample)
    ELSE boot_resample(survival, shots, nqubits, data_type, resamples, draws, k,
                       boot_sample, Keys(survival), Len(survival[1][2]),
                       resampled_reps(draws[k].idx, Len(survival),
                                      Len(survival[1][2])))

mean_less_quantile(vals) == RSub(np_mean(vals), np_quantile(vals, thresh))

lower_bound(vals) == RSub(RMul(Two, np_mean(vals)), np_quantile(vals, thresh))
upper_bound(vals) ==
    RSub(RMul(Two, np_mean(vals)), np_quantile(vals, RSub(One, thresh)))

(* lines 231-241                                                           *)
rb_uncertainty(loop) ==
    IF loop.exc # "none" THEN loop
    ELSE Ok([intercept_lower |-> lower_bound(loop.val.intercept),
             intercept_upper |-> upper_bound(loop.val.intercept),
             rate_lower |-> lower_bound(loop.val.rate),
             rate_upper |-> upper_bound(loop.val.rate)])

rb_bootstrap(survival, shots, nqubits, data_type, resamples, draws) ==
    rb_uncertainty(boot_loop(survival, shots, nqubits, data_type, resamples, draws,
                             1, [intercept |-> <<>>, rate |-> <<>>]))

next_i_stuck(i) == i

next_i(i) == i + 1

RECURSIVE pool_vals(_, _, _)
pool_vals(st, vals, j) ==
    IF j > Len(vals) THEN st
    ELSE pool_vals([d |-> Put(st.d, st.i, vals[j]), i |-> next_i(st.i)], vals, j + 1)

RECURSIVE pool_groups(_, _, _, _, _)
pool_groups(table, qlist, x, k, st) ==
    IF k > Len(qlist) THEN Ok(st.d)
    ELSE IF ~Has(Get(table, qlist[k]), x) THEN Raise("KeyError")
    ELSE pool_groups(table, qlist, x, k + 1,
                     pool_vals(st, Values(Get(Get(table, qlist[k]), x)), 1))

RECURSIVE pool_lengths(_, _, _, _, _)
RECURSIVE pool_put(_, _, _, _, _, _)
pool_put(table, qlist, xvals, n, ylist, one) ==
    IF one.exc # "none" THEN one
    ELSE pool_lengths(table, qlist, xvals, n + 1, Put(ylist, xvals[n], one.val))

pool_lengths(table, qlist, xvals, n, ylist) ==
    IF n > Len(xvals) THEN Ok(ylist)
    ELSE pool_put(table, qlist, xvals, n, ylist,
                  pool_groups(table, qlist, xvals[n], 1, [d |-> <<>>, i |-> 0]))

(* line 96, after the calls of lines 84-95                                 *)
rb_return(fit_call, fit_info, boot_call, boot_info) ==
    IF fit_info.exc # "none" THEN Done(fit_info, <<fit_call>>)
    ELSE IF boot_info.exc # "none" THEN Done(boot_info, <<fit_call, boot_call>>)
    ELSE Done(Ok(<< RSub(One, fit_info.val[2]),
                    RDiv(RSub(boot_info.val.rate_upper, boot_info.val.rate_lower),
                         Two) >>),
              <<fit_call, boot_call>>)

(* lines 84-95: the fit of the pooled means, the bootstrap of the pooled   *)
(* table                                                                   *)
rb_fit_and_bootstrap(xvals, ylist, yvals, shots, nqubits, data_type, resamples, env) ==
    rb_return([fn |-> "expoential_fit", xvals |-> xvals, yvals |-> yvals,
               nqubits |-> nqubits, data_type |-> data_type],
              expoential_fit(xvals, yvals, nqubits, data_type, env.opt),
              [fn |-> "bootstrap", survival |-> ylist, shots |-> shots,
               nqubits |-> nqubits, data_type |-> data_type],
              rb_bootstrap(ylist, shots, nqubits, data_type, resamples, env.draws))

(* lines 80-83                                                             *)
rb_means(xvals, pooled, shots, nqubits, data_type, resamples, env) ==
    IF pooled.exc # "none" THEN Done(pooled, <<>>)
    ELSE rb_fit_and_bootstrap(
            xvals, pooled.val,
            [i \in 1..Len(pooled.val) |->
                RDiv(R(ISum(Values(pooled.val[i][2])), Len(pooled.val[i][2])),
                     RInt(shots))],
            shots, nqubits, data_type, resamples, env)

(* lines 66-79                                                             *)
rb_pool(data, table, data_type, resamples, env) ==
    rb_means(Keys(table[1][2]),
             pool_lengths(table, Keys(table), Keys(table[1][2]), 1, <<>>),
             Get(data, "shots"), Len(table[1][1]), data_type, resamples, env)

rb_analysis_combined(data, data_type, resamples, env) ==
    IF ~Has(data, data_type) THEN Done(Raise("KeyError"), <<>>)
    ELSE rb_pool(data, Get(data, data_type), data_type, resamples, env)

-----------------------------------------------------------------------------
(* decay_analysis_functions.py: bootstrap and decay_analysis_combined.     *)

RECURSIVE decay_boot_loop(_, _, _, _, _, _, _)
RECURSIVE decay_boot_append(_, _, _, _, _, _, _, _)
decay_boot_append(survival, shots, decay_type, resamples, draws, k, boot_sample, metrics) ==
    IF metrics.exc # "none" THEN metrics
    ELSE decay_boot_loop(survival, shots, decay_type, resamples, draws, k + 1,
                         [spam |-> Append(boot_sample.spam, metrics.val[1]),
                          fid |-> Append(boot_sample.fid, metrics.val[2])])

(* lines 162-173: resample r of the binomial draws, and its fit            *)
decay_boot_loop(survival, shots, decay_type, resamples, draws, k, boot_sample) ==
    IF k > resamples THEN Ok(boot_sample)
    ELSE decay_boot_append(
            survival, shots, decay_type, resamples, draws, k, boot_sample,
            decay_fit(Keys(survival),
                      [i \in 1..Len(survival) |->
                        R(np_random_binomial(shots, R(survival[i][2], shots)), shots)],
                      decay_type, draws[k].opt))

(* lines 174-181                                                           *)
decay_uncertainty(loop) ==
    IF loop.exc # "none" THEN loop
    ELSE Ok([SPAM_lower |-> lower_bound(loop.val.spam),
             SPAM_upper |-> upper_bound(loop.val.spam),
             Avg_fidelity_lower |-> lower_bound(loop.val.fid),
             Avg_fidelity_upper |-> upper_bound(loop.val.fid)])

decay_bootstrap(survival, shots, decay_type, resamples, draws) ==
    decay_uncertainty(decay_boot_loop(survival, shots, decay_type, resamples, draws,
                                      1, [spam |-> <<>>, fid |-> <<>>]))

RECURSIVE sum_groups(_, _, _, _, _)
sum_groups(table, qlist, x, k, acc) ==
    IF k > Len(qlist) THEN Ok(acc)
    ELSE IF ~Has(Get(table, qlist[k]), x) THEN Raise("KeyError")
    ELSE sum_groups(table, qlist, x, k + 1, acc + Get(Get(table, qlist[k]), x))

RECURSIVE sum_lengths(_, _, _, _, _)
RECURSIVE sum_put(_, _, _, _, _, _)
sum_put(table, qlist, xvals, n, ylist, one) ==
    IF one.exc # "none" THEN one
    ELSE sum_lengths(table, qlist, xvals, n + 1, Put(ylist, xvals[n], one.val))

sum_lengths(table, qlist, xvals, n, ylist) ==
    IF n > Len(xvals) THEN Ok(ylist)
    ELSE sum_put(table, qlist, xvals, n, ylist,
                 sum_groups(table, qlist, xvals[n], 1, 0))

(* line 85, after the calls of lines 75-84                                 *)
decay_return(fit_call, fit_info, boot_call, boot_info) ==
    IF fit_info.exc # "none" THEN Done(fit_info, <<fit_call>>)
    ELSE IF boot_info.exc # "none" THEN Done(boot_info, <<fit_call, boot_call>>)
    ELSE Done(Ok(<< fit_info.val[2],
                    RDiv(RSub(boot_info.val.Avg_fidelity_upper,
                              boot_info.val.Avg_fidelity_lower), Two) >>),
              <<fit_call, boot_call>>)

(* lines 75-84                                                             *)
decay_fit_and_bootstrap(xvals, ylist, yvals, shots, decay_type, resamples, env) ==
    decay_return([fn |-> "decay_fit", xvals |-> xvals, yvals |-> yvals,
                  decay_type |-> decay_type],
                 decay_fit(xvals, yvals, decay_type, env.opt),
                 [fn |-> "bootstrap", survival |-> ylist, shots |-> shots,
                  decay_type |-> decay_type],
                 decay_bootstrap(ylist, shots, decay_type, resamples, env.draws))

(* lines 71-74                                                             *)
decay_means(xvals, summed, shots, nq, decay_type, resamples, env) ==
    IF summed.exc # "none" THEN Done(summed, <<>>)
    ELSE decay_fit_and_bootstrap(
            xvals, summed.val,
            [i \in 1..Len(summed.val) |->
                RDiv(R(summed.val[i][2], shots), RInt(nq))],
            shots * nq, decay_type, resamples, env)

(* lines 59-69                                                             *)
decay_sum(data, table, decay_type, resamples, env) ==
    decay_means(Keys(table[1][2]),
                sum_lengths(table, Keys(table), Keys(table[1][2]), 1, <<>>),
                Get(data, "shots"), Len(table), decay_type, resamples, env)

decay_analysis_combined(data, decay_type, resamples, env) ==
    decay_sum(data, Get(data, "survival"), decay_type, resamples, env)

-----------------------------------------------------------------------------
(* spam_reporting_functions.py: spam_combined.                             *)

(* sqrt(x)/c for a rational c > 0, and sqrt(x)/sqrt(y)                     *)
surd_div_r(s, c) == [rad |-> RDiv(s.rad, RMul(c, c))]
surd_div(s, t) == [rad |-> RDiv(s.rad, t.rad)]

RECURSIVE spam_sum(_, _, _, _, _)
spam_sum(spam_results, i, shots, nqubits, k) ==
    IF k > Len(spam_results) THEN Zero
    ELSE RAdd(RDiv(R(Get(spam_results[k][2], i), shots), RInt(nqubits)),
              spam_sum(spam_results, i, shots, nqubits, k + 1))

(* lines 123-127: res*(1 - res)                                            *)
spam_var(p) == RMul(p, RSub(One, p))

spam_fid_first(res) == res[0]

(* line 126                                                                *)
spam_fid(res) == RDiv(RAdd(res[0], res[1]), Two)

(* lines 122-129                                                           *)
spam_result(res, shots, nqubits) ==
    [val |-> RSub(One, spam_fid(res)),
     unc |-> surd_div(surd_div_r(np_sqrt(RAdd(spam_var(res[0]), spam_var(res[1]))),
                                 Two),
                      np_sqrt(RInt(shots * nqubits))),
     res |-> res,
     res_unc |-> << np_sqrt(RDiv(spam_var(res[0]), RInt(shots))),
                    np_sqrt(RDiv(spam_var(res[1]), RInt(shots))) >>]

spam_combined(data) ==
    spam_result([i \in {0, 1} |->
                    spam_sum(Get(data, "survival"), i, Get(data, "shots"),
                             Len(Get(data, "survival")), 1)],
                Get(data, "shots"), Len(Get(data, "survival")))

-----------------------------------------------------------------------------
(* combined_analysis.py: extract_parameters, one step per call it makes.   *)

NGroups == 2
NReps == 2
NLens == 2
Shots == 8
Resamples == 2

Unbound == 0

TestNames == {"SQ_RB", "TQ_RB", "Memory_RB", "Measurement_crosstalk",
              "Reset_crosstalk", "SPAM", "Gate_crosstalk"}

(* sub in test, for the substrings and the test names of this model        *)
In(sub, test) ==
    <<sub, test>> \in {<<"RB", "SQ_RB">>, <<"RB", "TQ_RB">>, <<"RB", "Memory_RB">>,
                       <<"SQ", "SQ_RB">>, <<"TQ", "TQ_RB">>}

(* the test lists: every list of at most two tests                         *)
TestLists ==
    {<<>>} \cup {<<a>> : a \in TestNames} \cup {<<a, b>> : a, b \in TestNames}

(* The files load_data reads.  A table has NGroups qubit groups, NLens     *)
(* sequence lengths and NReps repetitions; in shape "missing" the last     *)
(* group lacks the last length, in shape "extra" it has one more.          *)
Label(test, g) == IF test = "TQ_RB" THEN <<2 * g - 2, 2 * g - 1>> ELSE <<g - 1>>

SeqLen(l) == 2 * l

Count(o, g, r) == Shots - ((o + (g - 1) * NReps + r) % (Shots + 1))

RepDict(o, g) == [j \in 1..NReps |-> <<j - 1, Count(o, g, j - 1)>>]

NLensOf(shape, g) ==
    IF g = NGroups /\ shape = "missing" THEN NLens - 1
    ELSE IF g = NGroups /\ shape = "extra" THEN NLens + 1
    ELSE NLens

RbTable(test, shape, o) ==
    [g \in 1..NGroups |->
        <<Label(test, g),
          [l \in 1..NLensOf(shape, g) |-> <<SeqLen(l), RepDict(o, g)>>]>>]

RbFile(test, shape, leak) ==
    << <<"shots", Shots>>, <<"survival", RbTable(test, shape, 0)>> >>
    \o (IF leak = "absent" THEN <<>>
        ELSE << <<"leakage_postselect", RbTable(test, leak, 1)>> >>)

DecayTable(test, shape) ==
    [g \in 1..NGroups |->
        <<Label(test, g),
          [l \in 1..NLensOf(shape, g) |-> <<SeqLen(l), Count(l, g, 0)>>]>>]

DecayFile(test, shape) ==
    << <<"shots", Shots>>, <<"survival", DecayTable(test, shape)>> >>

SpamFile(test, o) ==
    << <<"shots", Shots>>,
       <<"survival", [g \in 1..NGroups |->
                        <<Label(test, g), << <<0, Count(o, g, 0)>>,
                                             <<1, Count(o, g, 1)>> >> >>]>> >>

NoFile == <<>>

FileVariants(test) ==
    IF In("RB", test)
    THEN {RbFile(test, "ok", leak) : leak \in {"absent", "ok", "missing", "extra"}}
         \cup {RbFile(test, shape, "ok") : shape \in {"missing", "extra"}}
    ELSE IF test \in {"Measurement_crosstalk", "Reset_crosstalk"}
    THEN {DecayFile(test, shape) : shape \in {"ok", "missing"}}
    ELSE IF test = "SPAM"
    THEN {SpamFile(test, o) : o \in {0, 1}}
    ELSE {NoFile}

(* the file systems for a test list: one file per test of the list         *)
RECURSIVE FilesFor(_)
FilesFor(l) ==
    IF l = <<>> THEN {[t \in TestNames |-> NoFile]}
    ELSE {[f EXCEPT ![Head(l)] = v] :
            f \in FilesFor(Tail(l)),
            v \in FileVariants(Head(l))}

(* lines 98-105: the test list when the caller gives none                  *)
DefaultList == <<"SQ_RB", "TQ_RB", "Memory_RB", "Measurement_crosstalk", "SPAM">>

(* the file systems under emulator_parameters: the files of the default    *)
(* list, each RB file without leakage table, with a well-formed one or     *)
(* with one whose last group lacks a length                                *)
EmulatorFiles ==
    {[t \in TestNames |->
        IF t = "SQ_RB" THEN RbFile(t, "ok", sq)
        ELSE IF t = "TQ_RB" THEN RbFile(t, "ok", tq)
        ELSE IF t = "Memory_RB" THEN RbFile(t, "ok", mem)
        ELSE IF t = "Measurement_crosstalk" THEN DecayFile(t, "ok")
        ELSE IF t = "SPAM" THEN SpamFile(t, 0)
        ELSE NoFile] :
        sq \in {"absent", "ok", "missing"}, tq \in {"absent", "ok", "missing"},
        mem \in {"absent", "ok"}}

(* The environment of one analysis call: the optimizer's outcome on the    *)
(* data, and the draws of the bootstrap.  pattern 0: every resample        *)
(* converges to the same point; -1: the resamples alternate between two    *)
(* points and np.random.choice always picks the last repetition; k > 0:    *)
(* resample k does not converge.                                           *)
P1 == <<<<1, 2>>, One>>
P2 == <<<<1, 2>>, <<1, 8>>>>

OptAt(pattern, k) ==
    IF pattern = k THEN NotConverged
    ELSE IF pattern = -1 /\ k % 2 = 0 THEN Converged(P1)
    ELSE Converged(P2)

Draws(resamples) ==
    {[k \in 1..resamples |->
        [idx |-> IF pattern = -1 THEN "last" ELSE "identity",
         opt |-> OptAt(pattern, k)]] : pattern \in -1..resamples}

Envs ==
    {[opt |-> o, draws |-> d] :
        o \in {Converged(P2), NotConverged}, d \in Draws(Resamples)}

(* the harnesses of the conversions and of the decay models, not in use    *)
CvIdle == [family |-> "none", tag |-> "none", nqubits |-> 0, raw |-> <<>>,
           stage |-> "idle", metrics |-> Pending, back |-> Pending]

MvIdle == [model |-> "none", nqubits |-> 0, m |-> 0, p |-> <<>>,
           stage |-> "idle", value |-> Zero]

(* the harness of the bootstraps, and of the per-group SPAM report, not in  *)
(* use                                                                     *)
BvIdle == [family |-> "none", survival |-> <<>>, shots |-> 0, nqubits |-> 0,
           tag |-> "none", resamples |-> 0, draws |-> <<>>, k |-> 0,
           stage |-> "idle", drawn |-> <<>>, sample |-> <<>>, result |-> Pending]

RvIdle == [machine |-> "none", year |-> 0, data |-> <<>>, stage |-> "idle",
           rows |-> <<>>]

(* extract_parameters called by the user; emulator_parameters not called   *)
EvUser == [caller |-> "extract_parameters", ret |-> Pending]

(* extract_parameters called by emulator_parameters (line 68)              *)
EvEmulator == [caller |-> "emulator_parameters", ret |-> Pending]

NoEnv == [opt |-> NotConverged, draws |-> <<>>]
NoCalls == [test |-> "none", data_type |-> "none", env |-> NoEnv, log |-> <<>>]

(* line 135: the exceptions the try block absorbs                          *)
absorbs_nothing(e) == FALSE

absorbs_everything(e) == TRUE

absorbs(e) == e = "KeyError"

(* lines 118-121: dim after the branches on the test's name; old is the    *)
(* value dim has before them                                               *)
dim_swapped(name, old) ==
    IF In("TQ", name) THEN 2 ELSE IF In("SQ", name) THEN 4 ELSE old

dim_at(name, old) ==
    IF In("TQ", name) THEN 4 ELSE IF In("SQ", name) THEN 2 ELSE old

InitExtract ==
    /\ cv = CvIdle
    /\ mv = MvIdle
    /\ bv = BvIdle
    /\ rv = RvIdle
    /\ \/ /\ ev = EvUser
          /\ test_list \in TestLists
          /\ files \in FilesFor(test_list)
       \/ /\ ev = EvEmulator
          /\ test_list = DefaultList
          /\ files \in EmulatorFiles
    /\ at = 1
    /\ pc = "test"
    /\ df = <<>>
    /\ dim = Unbound
    /\ local = [val |-> Zero, unc |-> Zero]
    /\ exc = "none"
    /\ calls = NoCalls

test == test_list[at]

Raised(e) ==
    /\ pc' = "raised"
    /\ exc' = e
    /\ UNCHANGED <<df, at, local>>

(* lines 110-116: the base analysis of an RB test                          *)
RBBase ==
    /\ pc = "test" /\ at <= Len(test_list) /\ In("RB", test)
    /\ \E env \in Envs :
        \E r \in {rb_analysis_combined(files[test], "survival", Resamples, env)} :
            /\ calls' = [test |-> test, data_type |-> "survival", env |-> env,
                         log |-> r.calls]
            /\ IF r.exc # "none" THEN Raised(r.exc)
               ELSE /\ df' = ((test \o "_legacy") :> r.val) @@ df
                    /\ local' = [val |-> r.val[1], unc |-> r.val[2]]
                    /\ pc' = "try"
                    /\ UNCHANGED <<at, exc>>
    /\ UNCHANGED <<cv, mv, bv, rv, ev, test_list, files, dim>>

(* lines 117-136: the try block with the leakage analysis                  *)
RBLeak ==
    /\ pc = "try"
    /\ LET d == dim_at(test, dim)
       IN
       /\ dim' = d
       /\ \E env \in Envs :
            \E r \in {rb_analysis_combined(files[test], "leakage_postselect",
                                         Resamples, env)} :
                /\ calls' = [test |-> test, data_type |-> "leakage_postselect",
                             env |-> env, log |-> r.calls]
                /\ IF r.exc # "none" /\ absorbs(r.exc)
                   THEN /\ pc' = "test"
                        /\ at' = at + 1
                        /\ UNCHANGED <<df, local, exc>>
                   ELSE IF r.exc # "none" THEN Raised(r.exc)
                   ELSE IF d = Unbound
                   THEN /\ df' = ((test \o "_leakage") :> r.val) @@ df
                        /\ pc' = "raised"
                        /\ exc' = "UnboundLocalError"
                        /\ UNCHANGED <<at, local>>
                   ELSE /\ df' = (test :>
                                    << RAdd(local.val, RDiv(r.val[1], RInt(d))),
                                       np_sqrt(RAdd(RPowInt(local.unc, 2),
                                                    RDiv(RPowInt(r.val[2], 2),
                                                         RPowInt(RInt(d), 2)))) >>)
                                 @@ ((test \o "_leakage") :> r.val) @@ df
                        /\ pc' = "test"
                        /\ at' = at + 1
                        /\ UNCHANGED <<local, exc>>
    /\ UNCHANGED <<cv, mv, bv, rv, ev, test_list, files>>

(* lines 137-144                                                           *)
Crosstalk ==
    /\ pc = "test" /\ at <= Len(test_list) /\ ~In("RB", test)
    /\ test = "Measurement_crosstalk" \/ test = "Reset_crosstalk"
    /\ \E env \in Envs :
        \E r \in {decay_analysis_combined(files[test], test, Resamples, env)} :
            /\ calls' = [test |-> test, data_type |-> "survival", env |-> env,
                         log |-> r.calls]
            /\ IF r.exc # "none" THEN Raised(r.exc)
               ELSE /\ df' = (test :> r.val) @@ df
                    /\ local' = [val |-> r.val[1], unc |-> r.val[2]]
                    /\ at' = at + 1
                    /\ UNCHANGED <<pc, exc>>
    /\ UNCHANGED <<cv, mv, bv, rv, ev, test_list, files, dim>>

(* lines 145-154                                                           *)
Spam ==
    /\ pc = "test" /\ at <= Len(test_list) /\ ~In("RB", test)
    /\ ~(test = "Measurement_crosstalk" \/ test = "Reset_crosstalk")
    /\ test = "SPAM"
    /\ \E r \in {spam_combined(files[test])} :
          /\ df' = (test :> <<r.val, r.unc>>)
                 @@ ((test \o "1") :> <<RSub(One, r.res[1]), r.res_unc[2]>>)
                 @@ ((test \o "0") :> <<RSub(One, r.res[0]), r.res_unc[1]>>)
                 @@ df
          /\ local' = [val |-> r.val, unc |-> r.unc]
    /\ at' = at + 1
    /\ UNCHANGED <<cv, mv, bv, rv, ev, test_list, files, pc, dim, exc, calls>>

(* a test that matches no branch of the loop body                          *)
NoBranch ==
    /\ pc = "test" /\ at <= Len(test_list) /\ ~In("RB", test)
    /\ ~(test = "Measurement_crosstalk" \/ test = "Reset_crosstalk")
    /\ test # "SPAM"
    /\ at' = at + 1
    /\ UNCHANGED <<cv, mv, bv, rv, ev, test_list, files, pc, df, dim, local, exc, calls>>

(* line 156                                                                *)
Return ==
    /\ pc = "test" /\ at > Len(test_list)
    /\ pc' = "returned"
    /\ UNCHANGED <<cv, mv, bv, rv, ev, test_list, files, at, df, dim, local, exc, calls>>

(* combined_analysis.py, first_sig_fig: the value printed together with its *)
(* uncertainty in the format '.1uE', i.e. rounded at the decimal place of   *)
(* the first significant digit of the uncertainty (at the seventh           *)
(* significant digit of the value when the uncertainty is zero), and read  *)
(* back as a number.  The value is rounded half to even, as the string     *)
(* formatting rounds.                                                      *)
Pow10(e) == IF e >= 0 THEN <<IPow(10, e), 1>> ELSE <<1, IPow(10, -e)>>

RAbs(x) == IF x[1] < 0 THEN <<-x[1], x[2]>> ELSE x

(* an uncertainty is a rational or the surd of one                         *)
IsSurd(u) == Cardinality(DOMAIN u) = 1

UncIsZero(u) == IF IsSurd(u) THEN u.rad = Zero ELSE u = Zero

(* c <= u, for a rational c >= 0                                           *)
UncGe(u, c) == IF IsSurd(u) THEN RLe(RMul(c, c), u.rad) ELSE RLe(c, u)

(* the decimal exponent of u > 0: the e with 10^e <= u < 10^(e+1)          *)
RECURSIVE exponent_from(_, _)
exponent_from(u, e) ==
    IF UncGe(u, Pow10(e))
    THEN IF UncGe(u, Pow10(e + 1)) THEN exponent_from(u, e + 1) ELSE e
    ELSE exponent_from(u, e - 1)

(* u / 10^e rounded to an integer, for 10^e <= u < 10^(e+1): 1..10        *)
RECURSIVE leading_digit(_, _, _)
leading_digit(u, e, d) ==
    IF d = 10 \/ ~UncGe(u, RMul(<<2 * d + 1, 2>>, Pow10(e))) THEN d
    ELSE leading_digit(u, e, d + 1)

(* the decimal place of the one digit of the uncertainty that is printed   *)
sig_exponent(u, e) == IF leading_digit(u, e, 1) = 10 THEN e + 1 ELSE e

(* n/d times 10^k for n, d > 0, rounded to an integer: q the integer part  *)
(* and r the remainder so far, one decimal digit at a time                 *)
RECURSIVE scaled_round(_, _, _, _)
scaled_round(q, r, d, k) ==
    IF k = 0
    THEN (IF 2 * r > d THEN q + 1 ELSE IF 2 * r = d THEN q + (q % 2) ELSE q)
    ELSE scaled_round(10 * q + ((10 * r) \div d), (10 * r) % d, d, k - 1)

(* val >= 0 rounded to a multiple of 10^e                                  *)
round_at(val, e) ==
    IF e <= 0
    THEN R(scaled_round(val[1] \div val[2], val[1] % val[2], val[2], -e),
           IPow(10, -e))
    ELSE RInt(scaled_round(val[1] \div (val[2] * IPow(10, e)),
                           val[1] % (val[2] * IPow(10, e)),
                           val[2] * IPow(10, e), 0) * IPow(10, e))

first_sig_fig(val, unc) ==
    IF UncIsZero(unc)
    THEN IF val = Zero THEN Zero
         ELSE round_at(val, exponent_from(RAbs(val), 0) - 6)
    ELSE round_at(val, sig_exponent(unc, exponent_from(unc, 0)))

(* combined_analysis.py, emulator_parameters.  The mapping it returns is a *)
(* record; None is the empty tuple.                                        *)
None == <<>>

(* line 79: the constant 0.543                                             *)
EmissionScale == <<543, 1000>>

fallback_key_leakage(t) == t \o "_leakage"

(* lines 82-85: the entry read when T is not in df_raw                     *)
fallback_key(t) == t \o "_legacy"

(* lines 86-90                                                             *)
renamed_entry(df_raw, old_name) ==
    IF old_name \in DOMAIN df_raw
    THEN first_sig_fig(df_raw[old_name][1], df_raw[old_name][2])
    ELSE None

(* lines 71-81: scale * leakage / base, for value and uncertainty          *)
emission_ratio(df_raw, old_name, base, scale) ==
    IF old_name \in DOMAIN df_raw
    THEN first_sig_fig(RDiv(RMul(scale, df_raw[old_name][1]), df_raw[base][1]),
                       RDiv(RMul(scale, df_raw[old_name][2]), df_raw[base][1]))
    ELSE None

(* lines 82-90 for SQ_RB and TQ_RB                                         *)
rate_entry(df_raw, t) ==
    IF t \notin DOMAIN df_raw
    THEN first_sig_fig(df_raw[fallback_key(t)][1], df_raw[fallback_key(t)][2])
    ELSE renamed_entry(df_raw, t)

(* the keys of df_raw that lines 71-85 index without testing for them      *)
lookups(df_raw) ==
    UNION {(IF (t \o "_leakage") \in DOMAIN df_raw THEN {t} ELSE {})
            \cup (IF t \notin DOMAIN df_raw THEN {fallback_key(t)} ELSE {})
           : t \in {"SQ_RB", "TQ_RB"}}

(* lines 57-92                                                             *)
emulator_parameters(df_raw) ==
    IF ~(lookups(df_raw) \subseteq DOMAIN df_raw) THEN Raise("KeyError")
    ELSE Ok([p1 |-> rate_entry(df_raw, "SQ_RB"),
             p1_emission_ratio |->
                 emission_ratio(df_raw, "SQ_RB_leakage", "SQ_RB", Two),
             p2 |-> rate_entry(df_raw, "TQ_RB"),
             p2_emission_ratio |->
                 emission_ratio(df_raw, "TQ_RB_leakage", "TQ_RB",
                                RDiv(One, EmissionScale)),
             dephasing_error |-> renamed_entry(df_raw, "Memory_RB_legacy"),
             p_crosstalk_meas |-> renamed_entry(df_raw, "Measurement_crosstalk"),
             p_crosstalk_init |-> renamed_entry(df_raw, "Reset_crosstalk"),
             p0_meas |-> renamed_entry(df_raw, "SPAM0"),
             p1_meas |-> renamed_entry(df_raw, "SPAM1")])

(* lines 68-92: emulator_parameters goes on with the mapping that          *)
(* extract_parameters returned to it                                       *)
Emulate ==
    /\ pc = "returned" /\ ev.caller = "emulator_parameters"
    /\ \E r \in {emulator_parameters(df)} :
          /\ ev' = [ev EXCEPT !.ret = r]
          /\ IF r.exc # "none"
             THEN pc' = "raised" /\ exc' = r.exc
             ELSE pc' = "emulated" /\ UNCHANGED exc
    /\ UNCHANGED <<cv, mv, bv, rv, test_list, files, at, df, dim, local, calls>>

Next == RBBase \/ RBLeak \/ Crosstalk \/ Spam \/ NoBranch \/ Return \/ Emulate

Spec == InitExtract /\ [][Next]_vars

-----------------------------------------------------------------------------
(* Properties of extract_parameters.                                       *)

Range(s) == {s[i] : i \in DOMAIN s}

HasLeak(t) == Has(files[t], "leakage_postselect")

(* section 6 of the specification: every group has the sequence lengths of *)
(* the first                                                               *)
SameLengths(table) ==
    \A g \in 1..Len(table) : Range(Keys(table[g][2])) = Range(Keys(table[1][2]))

Reported(t) ==
    IF In("RB", t) THEN (t \o "_legacy") \in DOMAIN df
    ELSE IF t \in {"Measurement_crosstalk", "Reset_crosstalk"} THEN t \in DOMAIN df
    ELSE IF t = "SPAM" THEN {"SPAM", "SPAM0", "SPAM1"} \subseteq DOMAIN df
    ELSE TRUE

(* the base value of an RB test: 1 - the rate metric of the point fit      *)
BaseValue(t, opt) ==
    RSub(One, rb_convert_params(opt.popt, Len(Get(files[t], "survival")[1][1]),
                                "survival").val[2])

C5_InTry ==
    pc = "try"
        => /\ df[test \o "_legacy"] = <<local.val, local.unc>>
           /\ local.val = BaseValue(test, calls.env.opt)

C5_Returned ==
    pc = "returned"
        => \A i \in 1..Len(test_list) :
            (In("RB", test_list[i]) /\ ~HasLeak(test_list[i]))
                => /\ (test_list[i] \o "_legacy") \in DOMAIN df
                   /\ test_list[i] \notin DOMAIN df
                   /\ (test_list[i] \o "_leakage") \notin DOMAIN df
                   /\ \A j \in (i + 1)..Len(test_list) : Reported(test_list[j])

C5_TryStep ==
    (pc = "try" /\ ~HasLeak(test))
        => /\ pc' = "test"
           /\ at' = at + 1
           /\ df' = df

(* C5: an RB test without a 'leakage_postselect' table does not make       *)
(* extract_parameters fail: the try block ends without an exception and    *)
(* leaves the mapping as the base analysis made it, with T_legacy holding  *)
(* the base value and uncertainty; the returned mapping has neither T nor  *)
(* T_leakage, and every later test of the list is reported.                *)
C5_MissingLeakageAbsorbed ==
    /\ [](C5_InTry /\ C5_Returned)
    /\ [][C5_TryStep]_vars

C5_Witness ==
    /\ pc = "returned"
    /\ Len(test_list) = 2
    /\ test_list[1] = "SQ_RB" /\ ~HasLeak("SQ_RB")
    /\ test_list[2] = "Measurement_crosstalk"
    /\ DOMAIN df = {"SQ_RB_legacy", "Measurement_crosstalk"}

(* C6: an RB table in which some group's sequence lengths differ from the  *)
(* first group's makes extract_parameters fail, for both variants: no      *)
(* mapping is returned for a list with such a table.                       *)
C6_MalformedTableFails ==
    pc = "returned"
        => \A i \in 1..Len(test_list) :
            In("RB", test_list[i])
                => \A dt \in {"survival", "leakage_postselect"} :
                    Has(files[test_list[i]], dt)
                        => SameLengths(Get(files[test_list[i]], dt))

(* C7: a test name outside the known set makes extract_parameters fail: no *)
(* mapping is returned for a list with such a name.                        *)
C7_UnknownTagFails ==
    pc = "returned"
        => \A i \in 1..Len(test_list) :
            \/ In("RB", test_list[i])
            \/ test_list[i] \in {"Measurement_crosstalk", "Reset_crosstalk", "SPAM"}

(* the last analysis call ran its bootstrap with a resample whose fit did  *)
(* not converge                                                            *)
ResampleFailed ==
    /\ Len(calls.log) = 2
    /\ \E k \in 1..Len(calls.env.draws) : ~calls.env.draws[k].opt.conv

(* C8: a resample whose fit does not converge ends the bootstrap, the      *)
(* analysis and extract_parameters with that failure, for the base and the *)
(* leakage variant and for the crosstalk tests.                            *)
C8_ResampleFailurePropagates ==
    ResampleFailed => (pc = "raised" /\ exc = "RuntimeError")

C8_Witness ==
    /\ ResampleFailed
    /\ calls.data_type = "leakage_postselect"
    /\ calls.env.opt.conv
    /\ ~calls.env.draws[Resamples].opt.conv
    /\ pc = "raised"

(* C9: for groups that share their lengths, the analysis makes one fit and *)
(* at most one bootstrap call, both on the pooled table: at every length   *)
(* the table has the keys 0..G*R-1, key (g-1)*R + r holds the count of     *)
(* repetition r of group g, and the shot count is the file's.              *)
C9_PooledThenFit ==
    (In("RB", calls.test) /\ calls.log # <<>>
        /\ SameLengths(Get(files[calls.test], calls.data_type)))
        => LET data == files[calls.test]
               table == Get(data, calls.data_type)
               G == Len(table)
               xs == Keys(table[1][2])
               RepsAt(g, x) == Get(table[g][2], x)
               PooledAt(x) ==
                    [i \in 1..ISum([g \in 1..G |-> Len(RepsAt(g, x))]) |->
                        <<i - 1,
                          LET g == CHOOSE h \in 1..G :
                                    /\ ISum([k \in 1..(h - 1) |-> Len(RepsAt(k, x))]) < i
                                    /\ i <= ISum([k \in 1..h |-> Len(RepsAt(k, x))])
                          IN  RepsAt(g, x)[i - ISum([k \in 1..(g - 1) |->
                                                        Len(RepsAt(k, x))])][2]>>]
               Pooled == [n \in 1..Len(xs) |-> <<xs[n], PooledAt(xs[n])>>]
           IN  /\ Len(calls.log) <= 2
               /\ calls.log[1].fn = "expoential_fit"
               /\ calls.log[1].xvals = xs
               /\ \A n \in 1..Len(xs) :
                    RMul(calls.log[1].yvals[n],
                         RInt(Len(PooledAt(xs[n])) * Get(data, "shots")))
                        = RInt(ISum(Values(PooledAt(xs[n]))))
               /\ calls.env.opt.conv <=> Len(calls.log) = 2
               /\ Len(calls.log) = 2
                    => /\ calls.log[2].fn = "bootstrap"
                       /\ calls.log[2].survival = Pooled
                       /\ \A n \in 1..Len(xs) :
                            Len(Pooled[n][2]) = G * Len(RepsAt(1, xs[n]))
                       /\ calls.log[2].shots = Get(data, "shots")

C9_Witness ==
    /\ calls.test = "TQ_RB" /\ calls.data_type = "survival"
    /\ Len(calls.log) = 2
    /\ pc = "try"
    /\ Len(calls.log[2].survival) = NLens
    /\ Len(calls.log[2].survival[1][2]) = NGroups * NReps

(* C10: for SQ_RB and TQ_RB with leakage data, the mapping has T_legacy,   *)
(* T_leakage and T, where T = base + leakage/dim with uncertainty          *)
(* sqrt(u_base^2 + u_leak^2/dim^2), dim = 2 for SQ_RB and 4 for TQ_RB; a   *)
(* returned mapping has the three entries for every such test whose        *)
(* leakage table has the lengths of section 6.  The relation is stated    *)
(* between the tests of the list and at the return: a name listed twice is *)
(* analysed twice, and T_legacy is rewritten before T is.                  *)
C10_LeakageCorrection ==
    \A t \in {"SQ_RB", "TQ_RB"} :
        LET d == IF t = "SQ_RB" THEN 2 ELSE 4
            leg == df[t \o "_legacy"]
            leak == df[t \o "_leakage"]
        IN  /\ (pc \in {"test", "returned"}
                    /\ (t \in DOMAIN df \/ (t \o "_leakage") \in DOMAIN df))
                => /\ {t, t \o "_legacy", t \o "_leakage"} \subseteq DOMAIN df
                   /\ RMul(RInt(d), RSub(df[t][1], leg[1])) = leak[1]
                   /\ RMul(RInt(d * d),
                           RSub(df[t][2].rad, RMul(leg[2], leg[2])))
                        = RMul(leak[2], leak[2])
            /\ (pc = "returned" /\ t \in Range(test_list) /\ HasLeak(t)
                    /\ SameLengths(Get(files[t], "leakage_postselect")))
                => t \in DOMAIN df

C10_Witness ==
    /\ pc = "returned"
    /\ test_list = <<"TQ_RB">>
    /\ "TQ_RB" \in DOMAIN df
    /\ df["TQ_RB_leakage"][1] # Zero
    /\ df["TQ_RB_leakage"][2] # Zero
    /\ df["TQ_RB_legacy"][2] # Zero
    /\ df["TQ_RB"][1] = RAdd(df["TQ_RB_legacy"][1], RDiv(df["TQ_RB_leakage"][1], RInt(4)))

(* C14: the dimension that scales the leakage term of an RB test comes     *)
(* from that test's own name (2 for SQ, 4 for TQ): an RB test named with   *)
(* neither never has a leakage-corrected entry in the mapping, which could *)
(* only be computed with the dimension an earlier test left behind.        *)
C14_DimFromOwnName ==
    \A t \in TestNames :
        (In("RB", t) /\ t \in DOMAIN df) => (In("SQ", t) \/ In("TQ", t))

(* the success fraction of state s in a SPAM file: the sum over the groups *)
(* of the count for s, over shots times the number of groups               *)
SuccessFraction(data, s) ==
    LET table == Get(data, "survival")
    IN  R(ISum([g \in 1..Len(table) |-> Get(table[g][2], s)]),
          Get(data, "shots") * Len(table))

(* C11: the SPAM values of the mapping satisfy SPAM = (SPAM0 + SPAM1)/2    *)
(* with SPAM_s = 1 - successFraction_s, the success fraction pooled over   *)
(* the groups; SPAM0 and SPAM1 are in the mapping whenever SPAM is.        *)
C11_SpamAverage ==
    "SPAM" \in DOMAIN df
        => /\ {"SPAM0", "SPAM1"} \subseteq DOMAIN df
           /\ df["SPAM0"][1] = RSub(One, SuccessFraction(files["SPAM"], 0))
           /\ df["SPAM1"][1] = RSub(One, SuccessFraction(files["SPAM"], 1))
           /\ df["SPAM"][1] = RDiv(RAdd(df["SPAM0"][1], df["SPAM1"][1]), Two)

C11_Witness ==
    /\ pc = "returned"
    /\ "SPAM" \in DOMAIN df
    /\ df["SPAM0"][1] # df["SPAM1"][1]
    /\ df["SPAM0"][1] # Zero

(* C18: in every mapping extract_parameters returns, each RB test T of the *)
(* list has T_legacy, and T and T_leakage are both present or both absent; *)
(* so emulator_parameters never raises a KeyError: every key it indexes    *)
(* without a test (the base of an emission ratio, the _legacy fallback) is *)
(* in the mapping it was given.                                            *)
C18_NoMissingKey ==
    /\ pc \in {"returned", "emulated"}
        => \A t \in Range(test_list) :
              In("RB", t)
                => /\ (t \o "_legacy") \in DOMAIN df
                   /\ t \in DOMAIN df <=> (t \o "_leakage") \in DOMAIN df
    /\ ev.ret.exc # "KeyError"
    /\ (pc = "returned" /\ ev.caller = "emulator_parameters")
        => lookups(df) \subseteq DOMAIN df

C18_Witness ==
    /\ pc = "emulated"
    /\ "SQ_RB" \notin DOMAIN df
    /\ "TQ_RB_leakage" \in DOMAIN df
    /\ ev.ret.val.p1 # None
    /\ ev.ret.val.p2_emission_ratio # None

EmulatorKeys ==
    {"p1", "p1_emission_ratio", "p2", "p2_emission_ratio", "dephasing_error",
     "p_crosstalk_meas", "p_crosstalk_init", "p0_meas", "p1_meas"}

(* C19: a mapping returned by emulator_parameters has exactly the nine     *)
(* keys, p_crosstalk_init is None, and an emission ratio is None exactly   *)
(* when the dataset of its test has no leakage table.                      *)
C19_NineKeys ==
    pc = "emulated"
        => /\ DOMAIN ev.ret.val = EmulatorKeys
           /\ ev.ret.val.p_crosstalk_init = None
           /\ ev.ret.val.p1_emission_ratio = None <=> ~HasLeak("SQ_RB")
           /\ ev.ret.val.p2_emission_ratio = None <=> ~HasLeak("TQ_RB")

(* what holds instead: an emission ratio is None exactly when the leakage  *)
(* table is absent or its groups differ in their sequence lengths          *)
NineKeysOfWellFormedTables ==
    pc = "emulated"
        => /\ DOMAIN ev.ret.val = EmulatorKeys
           /\ ev.ret.val.p_crosstalk_init = None
           /\ \A t \in {"SQ_RB", "TQ_RB"} :
                emission_ratio(df, t \o "_leakage", t, One) = None
                    <=> (HasLeak(t)
                            => ~SameLengths(Get(files[t], "leakage_postselect")))
           /\ ev.ret.val.p1 # None /\ ev.ret.val.p2 # None
           /\ ev.ret.val.dephasing_error # None
           /\ ev.ret.val.p_crosstalk_meas # None
           /\ ev.ret.val.p0_meas # None /\ ev.ret.val.p1_meas # None

-----------------------------------------------------------------------------
(* The conversions applied to bounded inputs: a caller holds a raw pair,   *)
(* converts or fits it, and converts the metrics back.                     *)

GridDen == 3
OffsetDen == 2

RbTags == {"survival", "leakage_postselect", "population"}
DecayTags == {"Measurement_crosstalk", "Reset_crosstalk", "Gate_crosstalk"}
KnownTags == {"survival", "leakage_postselect",
              "Measurement_crosstalk", "Reset_crosstalk"}

ExampleRate == <<9, 10>>

CubeGrid == {R(IPow(t, 3), IPow(GridDen, 3)) : t \in 0..GridDen}
LinGrid == {R(t, GridDen) : t \in 0..GridDen}
Offsets == {R(t, OffsetDen) : t \in 0..OffsetDen}

(* the raw rates on which rate ** (1/ntq) is rational                      *)
RawRates(family, tag, nqubits) ==
    IF family = "rb" /\ nqubits = 2 /\ tag = "survival"
    THEN CubeGrid
    ELSE CubeGrid \cup LinGrid \cup {ExampleRate}

CvCalls ==
    {[family |-> "rb", tag |-> t, nqubits |-> n] : t \in RbTags, n \in {1, 2}}
    \cup {[family |-> "decay", tag |-> t, nqubits |-> 1] : t \in DecayTags}

XIdle ==
    /\ test_list = <<>>
    /\ files = <<>>
    /\ at = 1
    /\ pc = "idle"
    /\ df = <<>>
    /\ dim = Unbound
    /\ local = [val |-> Zero, unc |-> Zero]
    /\ exc = "none"
    /\ calls = NoCalls
    /\ ev = EvUser

InitConvert ==
    /\ XIdle
    /\ mv = MvIdle
    /\ bv = BvIdle
    /\ rv = RvIdle
    /\ \E c \in CvCalls :
        \E A \in Offsets, r \in RawRates(c.family, c.tag, c.nqubits) :
            /\ InBounds(<<A, r>>)
            /\ cv = [family |-> c.family, tag |-> c.tag, nqubits |-> c.nqubits,
                     raw |-> <<A, r>>, stage |-> "raw",
                     metrics |-> Pending, back |-> Pending]

ConvertParams ==
    /\ cv.stage = "raw"
    /\ UNCHANGED <<mv, bv, rv, xvars>>
    /\ cv' = [cv EXCEPT
                !.stage = "params",
                !.metrics = IF cv.family = "rb"
                            THEN rb_convert_params(cv.raw, cv.nqubits, cv.tag)
                            ELSE decay_convert_params(cv.raw, cv.tag)]

Fit ==
    /\ cv.stage = "raw"
    /\ UNCHANGED <<mv, bv, rv, xvars>>
    /\ \E opt \in {Converged(cv.raw), NotConverged} :
        cv' = [cv EXCEPT
                !.stage = "fit",
                !.metrics = IF cv.family = "rb"
                            THEN expoential_fit(<<>>, <<>>, cv.nqubits, cv.tag, opt)
                            ELSE decay_fit(<<>>, <<>>, cv.tag, opt)]

ConvertMetrics ==
    /\ cv.stage \in {"params", "fit"}
    /\ cv.metrics.exc = "none" \/ cv.tag \notin KnownTags
    /\ UNCHANGED <<mv, bv, rv, xvars>>
    /\ LET arg == IF cv.metrics.exc = "none" THEN cv.metrics.val ELSE cv.raw
       IN  cv' = [cv EXCEPT
                    !.stage = "back",
                    !.back = IF cv.family = "rb"
                             THEN rb_convert_metrics(arg, cv.nqubits, cv.tag)
                             ELSE decay_convert_metrics(arg, cv.tag)]

NextConvert == ConvertParams \/ Fit \/ ConvertMetrics

SpecConvert == InitConvert /\ [][NextConvert]_vars

(* C1: converting raw fit parameters to metrics and back returns the raw   *)
(* parameters, for both RB variants, both qubit counts and both crosstalk  *)
(* families.                                                               *)
C1_RoundTrip ==
    (cv.stage = "back" /\ cv.tag \in KnownTags /\ cv.back.exc = "none")
        => cv.back.val = cv.raw

(* C2 as stated: the survival conversion has exponent 1 for one qubit and *)
(* 1/1.5 for two, such that a single-qubit rate r converts to r itself and *)
(* a two-qubit rate r to (3 r^(2/3) + 1)/4, i.e. the cube of (4c - 1)/3 is *)
(* the square of r.                                                        *)
C2_SurvivalExponent ==
    (cv.stage = "params" /\ cv.family = "rb" /\ cv.tag = "survival")
        => LET c == cv.metrics.val[2]
               r == cv.raw[2]
               y == RDiv(RSub(RMul(RInt(4), c), One), RInt(3))
           IN  /\ cv.metrics.exc = "none"
               /\ cv.nqubits = 1 => c = r
               /\ cv.nqubits = 2 => /\ RLe(Zero, y)
                                    /\ RPowInt(y, 3) = RPowInt(r, 2)

(* C2 amended: the survival conversion is ((2^n - 1) r^e + 1)/2^n with     *)
(* e = 1 for one qubit and e = 1/1.5 for two: a single-qubit rate r        *)
(* converts to (r + 1)/2 (0.9 to 0.95), a two-qubit rate r to              *)
(* (3 r^(2/3) + 1)/4.                                                      *)
C2_SurvivalConversion ==
    (cv.stage = "params" /\ cv.family = "rb" /\ cv.tag = "survival")
        => LET c == cv.metrics.val[2]
               r == cv.raw[2]
               y == RDiv(RSub(RMul(RInt(4), c), One), RInt(3))
           IN  /\ cv.metrics.exc = "none"
               /\ cv.nqubits = 1 => RSub(RMul(Two, c), One) = r
               /\ cv.nqubits = 2 => /\ RLe(Zero, y)
                                    /\ RPowInt(y, 3) = RPowInt(r, 2)

C2_Witness ==
    /\ cv.stage = "params" /\ cv.family = "rb" /\ cv.tag = "survival"
    /\ \/ cv.nqubits = 1 /\ cv.raw[2] = ExampleRate
                         /\ cv.metrics.val[2] = <<19, 20>>
       \/ cv.nqubits = 2 /\ cv.raw[2] = <<8, 27>>
                         /\ cv.metrics.val[2] = <<7, 12>>

(* C3: the rate-like second component of every fit result lies in [0,1].   *)
C3_FitRateInUnit ==
    (cv.stage = "fit" /\ cv.metrics.exc = "none") => InUnit(cv.metrics.val[2])

-----------------------------------------------------------------------------
(* The decay models evaluated on bounded inputs: sequence lengths          *)
(* 0..MaxSeqLen and parameter pairs of the box the fits allow.             *)

MaxSeqLen == 3

(* gamma = 0 and gamma = ln 2, both inside the bounds [0,1] of decay_fit   *)
Gammas == {0, 1}

MvCalls ==
    {[model |-> t, nqubits |-> n] :
        t \in {"survival", "leakage_postselect"}, n \in {1, 2}}
    \cup {[model |-> t, nqubits |-> 1] :
        t \in {"Measurement_crosstalk", "Reset_crosstalk"}}

MvParams(model) ==
    IF model \in {"survival", "leakage_postselect"}
    THEN {<<A, r>> : A \in Offsets, r \in CubeGrid \cup LinGrid \cup {ExampleRate}}
    ELSE {<<s, g>> : s \in Offsets, g \in Gammas}

InitModel ==
    /\ XIdle
    /\ cv = CvIdle
    /\ bv = BvIdle
    /\ rv = RvIdle
    /\ \E c \in MvCalls, m \in 0..MaxSeqLen :
        \E p \in MvParams(c.model) :
            mv = [model |-> c.model, nqubits |-> c.nqubits, m |-> m, p |-> p,
                  stage |-> "args", value |-> Zero]

Evaluate ==
    /\ mv.stage = "args"
    /\ mv' = [mv EXCEPT
                !.stage = "value",
                !.value =
                    IF mv.model \in {"survival", "leakage_postselect"}
                    THEN fit_function(mv.m, mv.p[1], mv.p[2], mv.nqubits, mv.model)
                    ELSE IF mv.model = "Measurement_crosstalk"
                    THEN measurement_crosstalk(mv.m, mv.p[1], mv.p[2])
                    ELSE reset_crosstalk(mv.m, mv.p[1], mv.p[2])]
    /\ UNCHANGED <<cv, bv, rv, xvars>>

NextModel == Evaluate

SpecModel == InitModel /\ [][NextModel]_vars

(* C4: every decay model maps a length >= 0 and a parameter pair of the    *)
(* fit's bounds to a value in [0,1].                                       *)
C4_ModelValueInUnit ==
    mv.stage = "value" => InUnit(mv.value)

(* what does hold: the three models other than plain RB stay in [0,1],     *)
(* plain RB stays in [0, 1 + 1/2^n]                                        *)
ModelValueBounds ==
    mv.stage = "value"
        => /\ RLe(Zero, mv.value)
           /\ mv.model # "survival" => RLe(mv.value, One)
           /\ mv.model = "survival"
                => RLe(mv.value, RAdd(One, asympt(mv.nqubits, mv.model)))


(* C13: the plain RB model with asymptote a = 1/2^n, A and r in [0,1], is  *)
(* A + a at length 0, at every length m > 0 at most its value at m - 1,    *)
(* and never below a.                                                      *)
C13_PlainModelDecays ==
    (mv.stage = "value" /\ mv.model = "survival")
        => LET a == RDiv(One, RInt(IPow(2, mv.nqubits)))
           IN  /\ exponential_with_asymptote(0, mv.p[1], mv.p[2], a)
                    = RAdd(mv.p[1], a)
               /\ mv.value = exponential_with_asymptote(mv.m, mv.p[1], mv.p[2], a)
               /\ mv.m > 0
                    => RLe(mv.value,
                           exponential_with_asymptote(mv.m - 1, mv.p[1], mv.p[2], a))
               /\ RLe(a, mv.value)

C13_Witness ==
    /\ mv.stage = "value" /\ mv.model = "survival" /\ mv.nqubits = 2
    /\ mv.m = 2
    /\ RLt(<<1, 4>>, mv.value)
    /\ RLt(mv.value, RAdd(mv.p[1], <<1, 4>>))

-----------------------------------------------------------------------------
(* The bootstraps applied to bounded inputs: a caller holds a pooled table *)
(* (RB) or a summed table (crosstalk); the loop runs one resample per      *)
(* step, then the bounds are taken from the bootstrap sample.              *)

MaxResamples == 3
MaxReps == 3

P3 == <<<<1, 4>>, <<1, 2>>>>

(* a pooled RB table of two lengths with reps[l] repetitions at length l   *)
BootTable(reps) ==
    [l \in 1..2 |->
        <<SeqLen(l), [j \in 1..reps[l] |-> <<j - 1, Count(l, 1, j - 1)>>]>>]

(* a summed crosstalk table of two lengths                                 *)
DecayBootTable == [l \in 1..2 |-> <<SeqLen(l), Count(l, 1, 0)>>]

BootDraws(n) ==
    {[k \in 1..n |-> [idx |-> how, opt |-> o[k]]] :
        how \in {"identity", "last"},
        o \in [1..n -> {Converged(P1), Converged(P2), Converged(P3), NotConverged}]}

DecayBootDraws(n) ==
    {[k \in 1..n |-> [idx |-> "identity", opt |-> o[k]]] :
        o \in [1..n -> {Converged(P1), Converged(P2), Converged(P3), NotConverged}]}

BvCalls ==
    UNION {
        {[family |-> "rb", survival |-> BootTable(reps), shots |-> Shots,
          nqubits |-> c[1], tag |-> c[2], resamples |-> n, draws |-> d, k |-> 1,
          stage |-> "loop", drawn |-> <<>>,
          sample |-> [intercept |-> <<>>, rate |-> <<>>], result |-> Pending] :
            reps \in [1..2 -> 2..MaxReps],
            c \in {<<1, "survival">>, <<2, "leakage_postselect">>},
            d \in BootDraws(n)}
        \cup
        {[family |-> "decay", survival |-> DecayBootTable, shots |-> Shots,
          nqubits |-> 0, tag |-> t, resamples |-> n, draws |-> d, k |-> 1,
          stage |-> "loop", drawn |-> <<>>,
          sample |-> [spam |-> <<>>, fid |-> <<>>], result |-> Pending] :
            t \in {"Measurement_crosstalk", "Reset_crosstalk"},
            d \in DecayBootDraws(n)}
        : n \in 1..MaxResamples}

InitBoot ==
    /\ XIdle
    /\ cv = CvIdle
    /\ mv = MvIdle
    /\ rv = RvIdle
    /\ bv \in BvCalls

(* rb lines 201-229, decay lines 165-173: resample bv.k                    *)
Resample ==
    /\ bv.stage = "loop" /\ bv.k <= bv.resamples
    /\ \E r \in {IF bv.family = "rb"
                 THEN boot_loop(bv.survival, bv.shots, bv.nqubits, bv.tag, bv.k,
                                bv.draws, bv.k, bv.sample)
                 ELSE decay_boot_loop(bv.survival, bv.shots, bv.tag, bv.k,
                                      bv.draws, bv.k, bv.sample)} :
        \E rr \in {IF bv.family = "rb"
                   THEN <<resampled_reps(bv.draws[bv.k].idx, Len(bv.survival),
                                         Len(bv.survival[1][2]))>>
                   ELSE <<>>} :
            bv' = IF r.exc # "none"
                  THEN [bv EXCEPT !.stage = "raised", !.result = r,
                                  !.drawn = @ \o rr]
                  ELSE [bv EXCEPT !.k = @ + 1, !.sample = r.val,
                                  !.drawn = @ \o rr]
    /\ UNCHANGED <<cv, mv, rv, xvars>>

(* rb lines 231-241, decay lines 174-181                                   *)
Uncertainty ==
    /\ bv.stage = "loop" /\ bv.k > bv.resamples
    /\ bv' = [bv EXCEPT
                !.stage = "done",
                !.result = IF bv.family = "rb"
                           THEN rb_uncertainty(Ok(bv.sample))
                           ELSE decay_uncertainty(Ok(bv.sample))]
    /\ UNCHANGED <<cv, mv, rv, xvars>>

NextBoot == Resample \/ Uncertainty

SpecBoot == InitBoot /\ [][NextBoot]_vars

(* the steps of the loop together are the bootstrap function               *)
BootAsWhole ==
    bv.stage \in {"done", "raised"}
        => bv.result =
            IF bv.family = "rb"
            THEN rb_bootstrap(bv.survival, bv.shots, bv.nqubits, bv.tag,
                              bv.resamples, bv.draws)
            ELSE decay_bootstrap(bv.survival, bv.shots, bv.tag, bv.resamples,
                                 bv.draws)

(* C12: with one resample, both bootstraps return for each metric          *)
(* lower = upper = the metric of the single resampled fit.                 *)
C12_SingleResample ==
    (bv.stage = "done" /\ bv.resamples = 1)
        => IF bv.family = "rb"
           THEN LET fit == rb_convert_params(bv.draws[1].opt.popt, bv.nqubits,
                                             bv.tag).val
                IN  /\ bv.result.val.intercept_lower = fit[1]
                    /\ bv.result.val.intercept_upper = fit[1]
                    /\ bv.result.val.rate_lower = fit[2]
                    /\ bv.result.val.rate_upper = fit[2]
           ELSE LET fit == decay_convert_params(bv.draws[1].opt.popt, bv.tag).val
                IN  /\ bv.result.val.SPAM_lower = fit[1]
                    /\ bv.result.val.SPAM_upper = fit[1]
                    /\ bv.result.val.Avg_fidelity_lower = fit[2]
                    /\ bv.result.val.Avg_fidelity_upper = fit[2]

C12_Witness ==
    /\ bv.stage = "done" /\ bv.resamples = 1
    /\ bv.family = "decay" /\ bv.tag = "Reset_crosstalk"
    /\ bv.draws[1].opt = Converged(P3)
    /\ bv.result.val.Avg_fidelity_lower = <<5, 6>>


(* the repetition indices drawn in resample k at the i-th length are as    *)
(* many as the repetitions recorded at that length, and each of them is    *)
(* the key of one                                                          *)
DrawnFits(k, i) ==
    /\ Len(bv.drawn[k][i]) = Len(bv.survival[i][2])
    /\ \A j \in 1..Len(bv.drawn[k][i]) : Has(bv.survival[i][2], bv.drawn[k][i][j])

(* C15: in every resample of the RB bootstrap and at every length of the   *)
(* table, as many repetition indices are drawn as repetitions are recorded *)
(* at that length, each referring to a repetition recorded at that length. *)
C15_DrawsPerLength ==
    bv.family = "rb"
        => \A k \in 1..Len(bv.drawn) : \A i \in 1..Len(bv.survival) : DrawnFits(k, i)

(* what does hold: C15's statement for the tables whose lengths all have   *)
(* the repetition count of the first                                       *)
DrawsPerLengthOfEvenTables ==
    (bv.family = "rb"
        /\ \A i \in 1..Len(bv.survival) :
            Len(bv.survival[i][2]) = Len(bv.survival[1][2]))
        => \A k \in 1..Len(bv.drawn) : \A i \in 1..Len(bv.survival) : DrawnFits(k, i)


(* C17: in every bootstrap result, RB and crosstalk, lower <= upper for    *)
(* each metric, so the half-width (upper - lower)/2 that the analyses      *)
(* return as the uncertainty is not negative.                              *)
C17_LowerBelowUpper ==
    bv.stage = "done"
        => IF bv.family = "rb"
           THEN /\ RLe(bv.result.val.intercept_lower, bv.result.val.intercept_upper)
                /\ RLe(bv.result.val.rate_lower, bv.result.val.rate_upper)
                /\ RLe(Zero, RDiv(RSub(bv.result.val.rate_upper,
                                       bv.result.val.rate_lower), Two))
           ELSE /\ RLe(bv.result.val.SPAM_lower, bv.result.val.SPAM_upper)
                /\ RLe(bv.result.val.Avg_fidelity_lower,
                       bv.result.val.Avg_fidelity_upper)
                /\ RLe(Zero, RDiv(RSub(bv.result.val.Avg_fidelity_upper,
                                       bv.result.val.Avg_fidelity_lower), Two))

C17_Witness ==
    /\ bv.stage = "done" /\ bv.family = "rb" /\ bv.resamples = 3
    /\ bv.sample.rate[1] # bv.sample.rate[2]
    /\ bv.sample.rate[2] # bv.sample.rate[3]
    /\ bv.sample.rate[1] # bv.sample.rate[3]
    /\ RLt(bv.result.val.rate_lower, bv.result.val.rate_upper)


-----------------------------------------------------------------------------
(* spam_reporting_functions.py: report, the per-group SPAM table.  A group *)
(* label is the tuple of its qubits.  The 'Mean' row, which report adds    *)
(* with qtm_spec.util.avg_uncertainty, is not part of the rows modelled.   *)

zone_labels_1 ==
    << <<<<0, 1>>, "G1">>, <<<<2, 3>>, "G2">>, <<<<4, 5>>, "G3">>,
       <<<<6, 7>>, "G4">>, <<<<8, 9>>, "G5">>,
       <<<<0>>, "G1-left">>, <<<<1>>, "G1-right">>, <<<<2>>, "G2-left">>,
       <<<<3>>, "G2-right">>, <<<<4>>, "G3-left">>, <<<<5>>, "G3-right">>,
       <<<<6>>, "G4-left">>, <<<<7>>, "G4-right">>, <<<<8>>, "G5-left">>,
       <<<<9>>, "G5-right">> >>

zone_labels_2 ==
    << <<<<0, 1>>, "G2">>, <<<<2, 3>>, "G3">>, <<<<4, 5>>, "G4">>,
       <<<<0>>, "G2-left">>, <<<<1>>, "G2-right">>, <<<<2>>, "G3-left">>,
       <<<<3>>, "G3-right">>, <<<<4>>, "G4-left">>, <<<<5>>, "G4-right">> >>

zone_labels_3 ==
    << <<<<0, 1>>, "DG01">>, <<<<2, 3>>, "DG02">>, <<<<4, 5>>, "DG03">>,
       <<<<6, 7>>, "DG04">>,
       <<<<0>>, "DG01-left">>, <<<<1>>, "DG01-right">>, <<<<2>>, "DG02-left">>,
       <<<<3>>, "DG02-right">>, <<<<4>>, "DG03-left">>, <<<<5>>, "DG03-right">>,
       <<<<6>>, "DG04-left">>, <<<<7>>, "DG04-right">> >>

(* lines 35-41 (and 47-53, 58-64): the table under the zone names, with    *)
(* the counts divided by the shots; a label the zone table lacks raises    *)
(* KeyError, which lines 43-44 pass over, and the table stays as loaded    *)
report_zones(spam_results, zone_labels, shots) ==
    IF \E g \in 1..Len(spam_results) : ~Has(zone_labels, spam_results[g][1])
    THEN spam_results
    ELSE [g \in 1..Len(spam_results) |->
            <<Get(zone_labels, spam_results[g][1]),
              [n \in 1..Len(spam_results[g][2]) |->
                <<spam_results[g][2][n][1],
                  RDiv(spam_results[g][2][n][2], RInt(shots))>>]>>]

(* lines 33-66: the branch on the machine and on the year of the date      *)
report_spam_results(spam_results, machine, year, shots) ==
    IF machine = "H1-1" \/ (machine = "H1-2" /\ year > 2022)
    THEN report_zones(spam_results, zone_labels_1, shots)
    ELSE IF machine = "H1-2"
    THEN report_zones(spam_results, zone_labels_2, shots)
    ELSE IF machine = "H2-1" \/ machine = "H2-2"
    THEN report_zones(spam_results, zone_labels_3, shots)
    ELSE spam_results

(* lines 68-102: the row of one group                                      *)
report_row(q, res0, res1, shots) ==
    [q |-> q,
     avg |-> RSub(One, RDiv(RAdd(res0, res1), Two)),
     avg_unc |-> surd_div(surd_div_r(np_sqrt(RAdd(spam_var(res0), spam_var(res1))),
                                     Two),
                          np_sqrt(RInt(shots))),
     err0 |-> RSub(One, res0),
     unc0 |-> surd_div(np_sqrt(spam_var(res0)), np_sqrt(RInt(shots))),
     err1 |-> RSub(One, res1),
     unc1 |-> surd_div(np_sqrt(spam_var(res1)), np_sqrt(RInt(shots)))]

report_rows(spam_results, shots) ==
    [g \in 1..Len(spam_results) |->
        report_row(spam_results[g][1], Get(spam_results[g][2], 0),
                   Get(spam_results[g][2], 1), shots)]

report(data, machine, year) ==
    report_rows(report_spam_results(Get(data, "survival"), machine, year,
                                    Get(data, "shots")),
                Get(data, "shots"))

(* The report applied to bounded inputs.  The counts of the file are       *)
(* numbers: RInt(c) is the count c.                                        *)
MaxShift == 2

Machines == {"H1-1", "H1-2", "H2-1", "H2-2", "H1-3"}
Years == {2022, 2023}
LabelLists == {<< <<0>>, <<1>> >>, << <<0, 1>>, <<2, 3>> >>, << <<0>>, <<6>> >>,
               << <<8>>, <<9>> >>, << <<0>>, <<10>> >>}

ReportFile(labels, o) ==
    << <<"shots", Shots>>,
       <<"survival", [g \in 1..Len(labels) |->
                        <<labels[g], << <<0, RInt(Count(o, g, 0))>>,
                                        <<1, RInt(Count(o, g, 1))>> >> >>]>> >>

InitReport ==
    /\ XIdle
    /\ cv = CvIdle
    /\ mv = MvIdle
    /\ bv = BvIdle
    /\ \E machine \in Machines, year \in Years, labels \in LabelLists,
          o \in 0..MaxShift :
        rv = [machine |-> machine, year |-> year, data |-> ReportFile(labels, o),
              stage |-> "args", rows |-> <<>>]

Report ==
    /\ rv.stage = "args"
    /\ rv' = [rv EXCEPT !.stage = "done",
                        !.rows = report(rv.data, rv.machine, rv.year)]
    /\ UNCHANGED <<cv, mv, bv, xvars>>

NextReport == Report

SpecReport == InitReport /\ [][NextReport]_vars

(* the count of state s of the g-th group of the file, over the shots      *)
CountOverShots(g, s) ==
    RDiv(Get(Get(rv.data, "survival")[g][2], s), RInt(Get(rv.data, "shots")))

(* C16: the per-group SPAM report has for every group and state the error  *)
(* 1 - count/shots, for every machine name and every group label.          *)
C16_PerGroupErrors ==
    rv.stage = "done"
        => \A g \in 1..Len(rv.rows) :
            /\ rv.rows[g].err0 = RSub(One, CountOverShots(g, 0))
            /\ rv.rows[g].err1 = RSub(One, CountOverShots(g, 1))

(* what does hold: C16's statement for the recognised machines when the    *)
(* zone table of the branch has every label of the file                    *)
PerGroupErrorsOfKnownZones ==
    (rv.stage = "done"
        /\ rv.machine \in {"H1-1", "H1-2", "H2-1", "H2-2"}
        /\ \A g \in 1..Len(rv.rows) :
            Has(IF rv.machine = "H1-1" \/ (rv.machine = "H1-2" /\ rv.year > 2022)
                THEN zone_labels_1
                ELSE IF rv.machine = "H1-2" THEN zone_labels_2 ELSE zone_labels_3,
                Get(rv.data, "survival")[g][1]))
        => \A g \in 1..Len(rv.rows) :
            /\ rv.rows[g].err0 = RSub(One, CountOverShots(g, 0))
            /\ rv.rows[g].err1 = RSub(One, CountOverShots(g, 1))

=============================================================================
